---------------------------- MODULE Spec2Model ----------------------------
(***************************************************************************)
(* Model of src/spa/main.cc: the SE(2) relative-pose cost functors         *)
(* (SpaCostFunctor, SpaCostFunctorAnalytic), NormalizeAngleDifference,     *)
(* and the pose-graph assembly of Optimize() as driven by run().           *)
(*                                                                         *)
(* Numbers.  The functors are evaluated on a grid on which their           *)
(* arithmetic is exact: coordinates are integers and angles are integer    *)
(* counts of quarter turns (pi/2), so that cos and sin take the values     *)
(* -1, 0, 1.  A whitened residual mixes lengths and angles; it is kept as  *)
(* the pair [len, ang] standing for the real number len + ang * (pi/2).    *)
(* As pi is irrational two such pairs are equal exactly when the reals     *)
(* are.  Rounding of doubles is not modelled.                              *)
(*                                                                         *)
(* A scalar stored in a Pose is the record [grid, frac], standing for      *)
(* grid * unit + frac * 10^-4 with unit 1 for a coordinate and pi/2 for an *)
(* angle; this holds the literals of run() (4.3, 1.4208, ...) as they are  *)
(* written.  The functors are applied to stored scalars with frac = 0.     *)
(***************************************************************************)
EXTENDS Integers, Sequences, FiniteSets, TLC

VARIABLES
    \* ---- Optimize(constraints, poses, use_analytic_cost) ----
    constraints,        \* const std::vector<Constraint>&
    poses,              \* std::map<int, Pose>&
    use_analytic_cost,  \* bool
    pc,                 \* position inside Optimize
    k,                  \* index of the constraint the for loop is at
    residual_blocks,    \* blocks registered by problem.AddResidualBlock
    parameter_blocks,   \* scalar parameters known to the ceres::Problem
    constant_blocks,    \* scalars passed to SetParameterBlockConstant
    poses_at_call,      \* the pose map as Optimize received it
    \* ---- one call of a cost functor ----
    observed,           \* x_, y_, theta_
    sqrt_information,   \* sqrt_information_
    parameters,         \* parameters[0..5][0]
    residuals,          \* output array residuals[0..2]
    jacobians,          \* output arrays jacobians[0..5][0..2]
    requested,          \* the k with jacobians[k] non-null
    epc                 \* "ready", "analytic", "analytic_nojac", "autodiff"

optvars  == <<constraints, poses, use_analytic_cost, pc, k, residual_blocks,
              parameter_blocks, constant_blocks, poses_at_call>>
evalvars == <<observed, sqrt_information, parameters, residuals, jacobians,
              requested, epc>>
vars     == <<optvars, evalvars>>

-----------------------------------------------------------------------------
(* Bounds of the model *)

MaxCoord == 1        \* functor inputs: coordinates in 0..MaxCoord
MaxAngle == 2        \* functor inputs: angles in -MaxAngle..MaxAngle quarter turns
MaxWraps == 2        \* whole turns added when periodicity is examined
MaxId == 2           \* pose ids 0..MaxId
MaxConstraints == 2  \* enumerated constraint lists have at most this length

-----------------------------------------------------------------------------
(* Angles *)

\* M_PI in quarter turns
kPi == 2

Cos(a) == CASE a % 4 = 0 -> 1
            [] a % 4 = 1 -> 0
            [] a % 4 = 2 -> -1
            [] a % 4 = 3 -> 0

Sin(a) == CASE a % 4 = 0 -> 0
            [] a % 4 = 1 -> 1
            [] a % 4 = 2 -> 0
            [] a % 4 = 3 -> -1

RECURSIVE WrapDown(_)
WrapDown(difference) ==
    IF difference > kPi THEN WrapDown(difference - 2 * kPi) ELSE difference

RECURSIVE WrapUp(_)
WrapUp(difference) ==
    IF difference < -kPi THEN WrapUp(difference + 2 * kPi) ELSE difference

NormalizeAngleDifference(difference) == WrapUp(WrapDown(difference))

-----------------------------------------------------------------------------
(* Matrices and vectors, indexed from 0 as in the source *)

Rows == 0..2
Columns == 0..5

Matrix3(r0, r1, r2) ==
    [i \in Rows |-> [j \in Rows |-> (CASE i = 0 -> r0 [] i = 1 -> r1 [] i = 2 -> r2)[j + 1]]]

Identity == Matrix3(<<1, 0, 0>>, <<0, 1, 0>>, <<0, 0, 1>>)

\* residual_map = sqrt_information_ * residual_map, with residual_map =
\* (r0, r1, r2): r0 and r1 are lengths, r2 an angle.
Whiten(S, r0, r1, r2) ==
    [i \in Rows |-> [len |-> S[i][0] * r0 + S[i][1] * r1, ang |-> S[i][2] * r2]]

ZeroResidual == [i \in Rows |-> [len |-> 0, ang |-> 0]]

\* a null jacobians[k], or an output array not written
Null == [i \in {} |-> 0]

-----------------------------------------------------------------------------
(* SpaCostFunctor::operator() : the residual handed to automatic            *)
(* differentiation.  p[0..5] = source x, y, theta, target x, y, theta.      *)

\* mutant: the y residual rotates with the opposite sign of the sine
AutoDiffResidual_SignSlip(obs, S, p) ==
    LET source_cos == Cos(p[2])
        source_sin == Sin(p[2])
        delta_x == p[3] - p[0]
        delta_y == p[4] - p[1]
        r0 == obs.x - (source_cos * delta_x + source_sin * delta_y)
        r1 == obs.y - (source_cos * delta_y + source_sin * delta_x)
        r2 == NormalizeAngleDifference(obs.theta - (p[5] - p[2]))
    IN  Whiten(S, r0, r1, r2)

AutoDiffResidual(obs, S, p) ==
    LET source_cos == Cos(p[2])
        source_sin == Sin(p[2])
        delta_x == p[3] - p[0]
        delta_y == p[4] - p[1]
        r0 == obs.x - (source_cos * delta_x + source_sin * delta_y)
        r1 == obs.y - (source_cos * delta_y - source_sin * delta_x)
        r2 == NormalizeAngleDifference(obs.theta - (p[5] - p[2]))
    IN  Whiten(S, r0, r1, r2)

-----------------------------------------------------------------------------
(* SpaCostFunctorAnalytic::Evaluate *)

\* mutant: the predicted angle is taken as target + source
AnalyticResidual_AngleSum(obs, S, p) ==
    LET cos_source_theta == Cos(p[2])
        sin_source_theta == Sin(p[2])
        dx == p[3] - p[0]
        dy == p[4] - p[1]
        r0 == obs.x - (cos_source_theta * dx + sin_source_theta * dy)
        r1 == obs.y - (cos_source_theta * dy - sin_source_theta * dx)
        r2 == NormalizeAngleDifference(obs.theta - (p[5] + p[2]))
    IN  Whiten(S, r0, r1, r2)

AnalyticResidual(obs, S, p) ==
    LET cos_source_theta == Cos(p[2])
        sin_source_theta == Sin(p[2])
        dx == p[3] - p[0]
        dy == p[4] - p[1]
        r0 == obs.x - (cos_source_theta * dx + sin_source_theta * dy)
        r1 == obs.y - (cos_source_theta * dy - sin_source_theta * dx)
        r2 == NormalizeAngleDifference(obs.theta - (p[5] - p[2]))
    IN  Whiten(S, r0, r1, r2)

\* "Some sub-expressions"
Unweighted02(c, s, dx, dy) == s * dx - c * dy
Unweighted12(c, s, dx, dy) == c * dx + s * dy

JacobianSourceX(S, c, s) ==
    [i \in Rows |-> S[i][0] * c - S[i][1] * s]

\* row 2 reads sqrt_information_(2, 2) in its second term
JacobianSourceY(S, c, s) ==
    [i \in Rows |-> IF i = 2 THEN S[2][0] * s + S[2][2] * c
                             ELSE S[i][0] * s + S[i][1] * c]

JacobianSourceTheta(S, u02, u12) ==
    [i \in Rows |-> S[i][0] * u02 + S[i][1] * u12]

\* jsx is the source-x column this call wrote, or Null when it was not asked for
JacobianTargetX(S, c, s, jsx) ==
    IF jsx # Null
    THEN [i \in Rows |-> -jsx[i]]
    ELSE [i \in Rows |-> S[i][1] * s - S[i][0] * c]

\* mutant: the target-y column is always recomputed from sqrt_information_,
\* never taken from the source-y column already written
JacobianTargetY_Recomputed(S, c, s, jsy) ==
    [i \in Rows |-> -S[i][0] * s - S[i][1] * c]

\* jsy is the source-y column this call wrote, or Null when it was not asked for
JacobianTargetY(S, c, s, jsy) ==
    IF jsy # Null
    THEN [i \in Rows |-> -jsy[i]]
    ELSE [i \in Rows |-> -S[i][0] * s - S[i][1] * c]

JacobianTargetTheta(S) ==
    [i \in Rows |-> -S[i][2]]

\* The arrays Evaluate leaves in jacobians when the columns in req are non-null.
AnalyticJacobians(S, p, req) ==
    LET c == Cos(p[2])
        s == Sin(p[2])
        dx == p[3] - p[0]
        dy == p[4] - p[1]
        jsx == IF 0 \in req THEN JacobianSourceX(S, c, s) ELSE Null
        jsy == IF 1 \in req THEN JacobianSourceY(S, c, s) ELSE Null
        jst == IF 2 \in req
               THEN JacobianSourceTheta(S, Unweighted02(c, s, dx, dy),
                                        Unweighted12(c, s, dx, dy))
               ELSE Null
        jtx == IF 3 \in req THEN JacobianTargetX(S, c, s, jsx) ELSE Null
        jty == IF 4 \in req THEN JacobianTargetY(S, c, s, jsy) ELSE Null
        jtt == IF 5 \in req THEN JacobianTargetTheta(S) ELSE Null
    IN  [col \in Columns |->
            CASE col = 0 -> jsx [] col = 1 -> jsy [] col = 2 -> jst
              [] col = 3 -> jtx [] col = 4 -> jty [] col = 5 -> jtt]

NoJacobians == [col \in Columns |-> Null]

-----------------------------------------------------------------------------
(* Inputs of a functor call *)

Pose3(x, y, theta) == [x |-> x, y |-> y, theta |-> theta]

\* relative poses of run(): 0->1 and 2->0, 1->2; and the identity
Rel01 == Pose3(4, 0, 1)
Rel12 == Pose3(4, 4, 2)
RelIdentity == Pose3(0, 0, 0)

ObservedSet == {RelIdentity, Rel01, Rel12}

\* Identity is what Optimize passes; the constructors accept any Matrix3d.
SqrtInfoSet ==
    { Identity,
      Matrix3(<<2, 1, 0>>, <<0, 1, 1>>, <<0, 0, 3>>),
      Matrix3(<<1, 0, 2>>, <<1, 2, 0>>, <<1, 2, 3>>) }

Coords == 0..MaxCoord
Angles == (-MaxAngle)..MaxAngle

ParameterSet ==
    { [col \in Columns |->
          CASE col = 0 -> q[1] [] col = 1 -> q[2] [] col = 2 -> q[3]
            [] col = 3 -> q[4] [] col = 4 -> q[5] [] col = 5 -> q[6]]
      : q \in Coords \X Coords \X Angles \X Coords \X Coords \X Angles }

OptIdle ==
    /\ constraints = <<>>
    /\ poses = <<>>
    /\ use_analytic_cost = FALSE
    /\ pc = "idle"
    /\ k = 0
    /\ residual_blocks = <<>>
    /\ parameter_blocks = {}
    /\ constant_blocks = {}
    /\ poses_at_call = <<>>

EvalInit ==
    /\ observed \in ObservedSet
    /\ sqrt_information \in SqrtInfoSet
    /\ parameters \in ParameterSet
    /\ residuals = Null
    /\ jacobians = NoJacobians
    /\ requested = {}
    /\ epc = "ready"
    /\ OptIdle

\* Evaluate(parameters, residuals, jacobians) with jacobians non-null
EvaluateWithJacobians ==
    /\ epc = "ready"
    /\ \E req \in SUBSET Columns :
          /\ requested' = req
          /\ jacobians' = AnalyticJacobians(sqrt_information, parameters, req)
    /\ residuals' = AnalyticResidual(observed, sqrt_information, parameters)
    /\ epc' = "analytic"
    /\ UNCHANGED <<observed, sqrt_information, parameters, optvars>>

\* Evaluate(parameters, residuals, nullptr): returns after the residual
EvaluateResidualOnly ==
    /\ epc = "ready"
    /\ residuals' = AnalyticResidual(observed, sqrt_information, parameters)
    /\ epc' = "analytic_nojac"
    /\ UNCHANGED <<observed, sqrt_information, parameters, jacobians, requested, optvars>>

\* SpaCostFunctor::operator() on doubles
CallAutoDiffFunctor ==
    /\ epc = "ready"
    /\ residuals' = AutoDiffResidual(observed, sqrt_information, parameters)
    /\ epc' = "autodiff"
    /\ UNCHANGED <<observed, sqrt_information, parameters, jacobians, requested, optvars>>

EvalNext ==
    \/ EvaluateWithJacobians
    \/ EvaluateResidualOnly
    \/ CallAutoDiffFunctor

SpecEval == EvalInit /\ [][EvalNext]_vars

-----------------------------------------------------------------------------
(* Properties of a functor call (checked under SpecEval) *)

Evaluated == epc \in {"analytic", "analytic_nojac", "autodiff"}

\* the angle handed to NormalizeAngleDifference by the call
RawAngle == observed.theta - (parameters[5] - parameters[2])

\* The angle residual is off the wrap boundary, and so are the two points
\* one quarter turn to either side that the central difference reads.
AwayFromWrap ==
    /\ NormalizeAngleDifference(RawAngle) \notin {kPi, -kPi}
    /\ NormalizeAngleDifference(RawAngle + 1) = NormalizeAngleDifference(RawAngle) + 1
    /\ NormalizeAngleDifference(RawAngle - 1) = NormalizeAngleDifference(RawAngle) - 1

Shift(p, col, h) == [p EXCEPT ![col] = @ + h]

\* Twice the partial derivative of row i of the whitened residual with
\* respect to parameter col, as a central difference of the residual with
\* step h = 1 (one length unit, or one quarter turn):
\*   - in a coordinate the residual is affine, so r(p+h) - r(p-h) = 2 r'(p);
\*   - in theta_s the length part is A + B cos + C sin, for which
\*     f(t + pi/2) - f(t - pi/2) = 2 (-B sin t + C cos t) = 2 f'(t);
\*   - the angle part is affine in theta_s and theta_t away from the wrap,
\*     and its derivative is the difference of the quarter-turn counts
\*     divided by the 2 quarter turns between the two points.
CentralDifference(col, i) ==
    LET hi == AnalyticResidual(observed, sqrt_information, Shift(parameters, col, 1))[i]
        lo == AnalyticResidual(observed, sqrt_information, Shift(parameters, col, -1))[i]
    IN  (hi.len - lo.len) + (hi.ang - lo.ang)

ColumnIsDerivative(col) ==
    \A i \in Rows : 2 * jacobians[col][i] = CentralDifference(col, i)

\* C1: away from the wrap boundary of the angle residual, every Jacobian
\* entry written by Evaluate is the partial derivative of the matching row
\* of the whitened residual (it agrees with the central difference).
C1_JacobianIsDerivative ==
    (epc = "analytic" /\ AwayFromWrap)
        => \A col \in requested : ColumnIsDerivative(col)

\* C2: the entries written to a requested column are the same under every
\* other request mask that contains the column.
C2_ColumnIndependentOfMask ==
    epc = "analytic"
        => \A other \in SUBSET Columns :
              \A col \in requested \cap other :
                 AnalyticJacobians(sqrt_information, parameters, other)[col]
                     = jacobians[col]

\* C4: NormalizeAngleDifference returns the representative in (-pi, pi],
\* and is unchanged by adding whole turns to its argument.
C4_NormalizedHalfOpen ==
    Evaluated
        => LET n == NormalizeAngleDifference(RawAngle)
           IN  /\ n > -kPi
               /\ n <= kPi
               /\ \A w \in (-MaxWraps)..MaxWraps :
                     NormalizeAngleDifference(RawAngle + 2 * kPi * w) = n

\* C7: when one call returns the source and the target position columns,
\* target-x is the exact negation of source-x and target-y of source-y.
C7_NegationSymmetry ==
    epc = "analytic"
        => /\ ({0, 3} \subseteq requested
                 => \A i \in Rows : jacobians[3][i] = -jacobians[0][i])
           /\ ({1, 4} \subseteq requested
                 => \A i \in Rows : jacobians[4][i] = -jacobians[1][i])

C7_Witness ==
    /\ epc = "analytic"
    /\ {0, 1, 3, 4} \subseteq requested
    /\ jacobians[3][0] # 0
    /\ jacobians[4][2] # 0
    /\ sqrt_information # Identity

SameSourceAndTarget ==
    /\ parameters[3] = parameters[0]
    /\ parameters[4] = parameters[1]
    /\ parameters[5] = parameters[2]

\* C8: with source = target and the identity observed, both functors
\* write the zero residual, for any square-root information matrix.
C8_ZeroResidualAtIdentity ==
    (Evaluated /\ observed = RelIdentity /\ SameSourceAndTarget)
        => residuals = ZeroResidual

C8_Witness ==
    /\ epc = "autodiff"
    /\ observed = RelIdentity
    /\ SameSourceAndTarget
    /\ parameters[0] # 0
    /\ parameters[2] = 1
    /\ sqrt_information # Identity
    /\ residuals = ZeroResidual

-----------------------------------------------------------------------------
(* Poses as stored in std::map<int, Pose> *)

Fields == {"x", "y", "theta"}

Scalar(g, f) == [grid |-> g, frac |-> f]
Grid(g) == Scalar(g, 0)

StoredPose(x, y, theta) == [x |-> x, y |-> y, theta |-> theta]
GridPose(x, y, theta) == StoredPose(Grid(x), Grid(y), Grid(theta))

\* the address of one double of poses[id]
Ref(id, f) == <<id, f>>

-----------------------------------------------------------------------------
(* run(): the triangle and its initial estimate *)

\* mutant: the closing constraint 2->0 is given the translation (0, 4)
RunConstraints_OpenTriangle ==
    << [source |-> 0, target |-> 1, relative_pose |-> Rel01],
       [source |-> 1, target |-> 2, relative_pose |-> Rel12],
       [source |-> 2, target |-> 0, relative_pose |-> Pose3(0, 4, 1)] >>

RunConstraints ==
    << [source |-> 0, target |-> 1, relative_pose |-> Rel01],
       [source |-> 1, target |-> 2, relative_pose |-> Rel12],
       [source |-> 2, target |-> 0, relative_pose |-> Rel01] >>

\* p0 = (0, 0, 0), p1 = (4.3, -0.2, 1.4208), p2 = (-0.5, 4.4, -1.3708)
RunPoses ==
    [id \in 0..2 |->
        CASE id = 0 -> GridPose(0, 0, 0)
          [] id = 1 -> StoredPose(Scalar(4, 3000), Scalar(0, -2000), Scalar(0, 14208))
          [] id = 2 -> StoredPose(Scalar(0, -5000), Scalar(4, 4000), Scalar(0, -13708))]

-----------------------------------------------------------------------------
(* Inputs of Optimize *)

Ids == 0..MaxId

\* enumerated constraints carry the relative pose run() gives their edge,
\* and the identity on the other edges; source and target differ
EdgePose(s, t) ==
    CASE <<s, t>> = <<0, 1>> -> Rel01
      [] <<s, t>> = <<1, 2>> -> Rel12
      [] <<s, t>> = <<2, 0>> -> Rel01
      [] OTHER -> RelIdentity

ConstraintSet ==
    { [source |-> e[1], target |-> e[2], relative_pose |-> EdgePose(e[1], e[2])]
      : e \in { d \in Ids \X Ids : d[1] # d[2] } }

ConstraintLists ==
    {RunConstraints} \cup UNION { [1..n -> ConstraintSet] : n \in 0..MaxConstraints }

InitialPose(id) ==
    IF id \in DOMAIN RunPoses THEN RunPoses[id] ELSE GridPose(id, id, 0)

PoseMaps == { [id \in K |-> InitialPose(id)] : K \in SUBSET Ids }

\* A Pose default-constructed by std::map::operator[] holds indeterminate
\* doubles: any value may be read from it.
UninitPoses == { GridPose(0, 0, 0), GridPose(7, 7, 1) }

\* Estimates the solver may write into the non-constant parameters.
ExactEstimate(id) ==
    CASE id = 0 -> GridPose(0, 0, 0)
      [] id = 1 -> GridPose(4, 0, 1)
      [] id = 2 -> GridPose(0, 4, -1)
      [] OTHER -> GridPose(id, id, 0)

ShiftedEstimate(id) ==
    LET e == ExactEstimate(id)
    IN  GridPose(e.x.grid + 1, e.y.grid + 1, e.theta.grid + 1)

SolverEstimates ==
    { [id \in Ids |-> ExactEstimate(id)], [id \in Ids |-> ShiftedEstimate(id)] }

-----------------------------------------------------------------------------
(* Optimize *)

\* information_matrix.llt().matrixU() of the identity
SqrtInformation == Identity

\* poses[id]: std::map::operator[] inserts a default-constructed Pose
\* (fresh) when the key is absent
Subscript(map, id, fresh) ==
    IF id \in DOMAIN map
    THEN map
    ELSE [j \in DOMAIN map \cup {id} |-> IF j = id THEN fresh ELSE map[j]]

\* what operator[] may find or create at id
Found(map, id) ==
    IF id \in DOMAIN map THEN {map[id]} ELSE UninitPoses

\* the six parameter blocks handed to AddResidualBlock, in order
BlockParameters(constraint) ==
    << Ref(constraint.source, "x"), Ref(constraint.source, "y"),
       Ref(constraint.source, "theta"),
       Ref(constraint.target, "x"), Ref(constraint.target, "y"),
       Ref(constraint.target, "theta") >>

HuberLoss(a) == [loss |-> "HuberLoss", a |-> a]

ResidualBlock(constraint, analytic) ==
    [ cost_function |-> IF analytic THEN "SpaCostFunctorAnalytic"
                                    ELSE "AutoDiffCostFunction<SpaCostFunctor>",
      observed |-> constraint.relative_pose,
      sqrt_information |-> SqrtInformation,
      loss_function |-> HuberLoss(1),
      parameter_blocks |-> BlockParameters(constraint) ]

Range(seq) == { seq[n] : n \in DOMAIN seq }

\* one iteration of the for loop over constraints
AddResidualBlock ==
    /\ pc = "loop"
    /\ k <= Len(constraints)
    /\ LET constraint == constraints[k]
       IN  \E fresh_source \in Found(poses, constraint.source) :
             LET with_source == Subscript(poses, constraint.source, fresh_source)
             IN  \E fresh_target \in Found(with_source, constraint.target) :
                    poses' = Subscript(with_source, constraint.target, fresh_target)
    /\ residual_blocks' =
          Append(residual_blocks, ResidualBlock(constraints[k], use_analytic_cost))
    /\ parameter_blocks' =
          parameter_blocks \cup Range(BlockParameters(constraints[k]))
    /\ k' = k + 1
    /\ UNCHANGED <<constraints, use_analytic_cost, pc, constant_blocks,
                   poses_at_call, evalvars>>

\* mutant: the rotation of the reference pose is not set constant
AnchorBlocks_NoAngle(id) == { Ref(id, "x"), Ref(id, "y") }

\* the three SetParameterBlockConstant calls on reference_pose
AnchorBlocks(id) == { Ref(id, "x"), Ref(id, "y"), Ref(id, "theta") }

\* reference_pose = poses[0] and the SetParameterBlockConstant calls.
\* ceres::Problem refuses (fatally) to set constant a parameter block that
\* no residual block has added to it: Optimize then never reaches Solve.
MarkAnchorConstant ==
    /\ pc = "loop"
    /\ k > Len(constraints)
    /\ \E fresh \in Found(poses, 0) : poses' = Subscript(poses, 0, fresh)
    /\ constant_blocks' = AnchorBlocks(0)
    /\ pc' = IF AnchorBlocks(0) \subseteq parameter_blocks THEN "solve" ELSE "aborted"
    /\ UNCHANGED <<constraints, use_analytic_cost, k, residual_blocks,
                   parameter_blocks, poses_at_call, evalvars>>

\* ceres::Solve, one accepted step: every parameter block of the problem
\* that is not constant is overwritten in place
SolverStep ==
    /\ pc = "solve"
    /\ \E estimate \in SolverEstimates :
          poses' = [id \in DOMAIN poses |->
                      [f \in Fields |->
                          IF Ref(id, f) \in parameter_blocks \ constant_blocks
                          THEN estimate[id][f]
                          ELSE poses[id][f]]]
    /\ UNCHANGED <<constraints, use_analytic_cost, pc, k, residual_blocks,
                   parameter_blocks, constant_blocks, poses_at_call, evalvars>>

\* ceres::Solve returns and Optimize returns summary.total_time_in_seconds
SolverReturn ==
    /\ pc = "solve"
    /\ pc' = "done"
    /\ UNCHANGED <<constraints, poses, use_analytic_cost, k, residual_blocks,
                   parameter_blocks, constant_blocks, poses_at_call, evalvars>>

EvalIdle ==
    /\ observed = RelIdentity
    /\ sqrt_information = Identity
    /\ parameters = [col \in Columns |-> 0]
    /\ residuals = Null
    /\ jacobians = NoJacobians
    /\ requested = {}
    /\ epc = "idle"

Init ==
    /\ constraints \in ConstraintLists
    /\ poses \in PoseMaps
    /\ use_analytic_cost \in BOOLEAN
    /\ pc = "loop"
    /\ k = 1
    /\ residual_blocks = <<>>
    /\ parameter_blocks = {}
    /\ constant_blocks = {}
    /\ poses_at_call = poses
    /\ EvalIdle

Next ==
    \/ AddResidualBlock
    \/ MarkAnchorConstant
    \/ SolverStep
    \/ SolverReturn

Spec == Init /\ [][Next]_vars

\* The program as a whole: Optimize assembling a problem, and the cost
\* functors it registers being called.
InitProgram ==
    \/ Init
    \/ EvalInit

NextProgram ==
    \/ Next
    \/ EvalNext

SpecProgram == InitProgram /\ [][NextProgram]_vars

-----------------------------------------------------------------------------
(* A residual block evaluated at the (grid) poses it is bound to *)

BlockValues(b) ==
    [col \in Columns |->
        LET r == b.parameter_blocks[col + 1] IN poses[r[1]][r[2]].grid]

BlockResidual(b) ==
    IF b.cost_function = "SpaCostFunctorAnalytic"
    THEN AnalyticResidual(b.observed, b.sqrt_information, BlockValues(b))
    ELSE AutoDiffResidual(b.observed, b.sqrt_information, BlockValues(b))

-----------------------------------------------------------------------------
(* Properties of Optimize (checked under Spec) *)

\* ids Optimize dereferences: every constraint's source and target, and 0
Dereferenced ==
    {0} \cup { constraints[n].source : n \in DOMAIN constraints }
        \cup { constraints[n].target : n \in DOMAIN constraints }

ValidGraph == Dereferenced \subseteq DOMAIN poses_at_call

SolverInvoked == pc \in {"solve", "done"}

\* C3: called with a pose map that lacks an id it dereferences, Optimize
\* fails before any solver invocation and leaves the pose map unchanged
\* (no key added, no pose modified).
C3_InvalidGraphRejected ==
    ~ValidGraph => (~SolverInvoked /\ poses = poses_at_call)

C6_EmptyListAssembles ==
    (Len(constraints) = 0 /\ 0 \in DOMAIN poses_at_call)
        => /\ residual_blocks = <<>>
           /\ constant_blocks \subseteq parameter_blocks
           /\ pc # "aborted"
           /\ poses = poses_at_call

\* composition of a pose with a relative pose observed from it
Compose(p, rel) ==
    Pose3(p.x + Cos(p.theta) * rel.x - Sin(p.theta) * rel.y,
          p.y + Sin(p.theta) * rel.x + Cos(p.theta) * rel.y,
          NormalizeAngleDifference(p.theta + rel.theta))

Composed0 == Pose3(0, 0, 0)
Composed1 == Compose(Composed0, RunConstraints[1].relative_pose)
Composed2 == Compose(Composed1, RunConstraints[2].relative_pose)

ComposedPoses ==
    [id \in 0..2 |->
        LET q == CASE id = 0 -> Composed0 [] id = 1 -> Composed1 [] id = 2 -> Composed2
        IN  GridPose(q.x, q.y, q.theta)]

RunCall == constraints = RunConstraints /\ poses_at_call = RunPoses

\* C9: composing 0->1 and 1->2 from p0 = (0, 0, 0) gives p1 = (4, 0, pi/2)
\* and p2 = (0, 4, -pi/2); at these poses every residual block of run()'s
\* triangle, the closing 2->0 included, has the zero residual, with pose 0
\* at its initial value.
C9_TriangleConsistent ==
    /\ Composed1 = Pose3(4, 0, 1)
    /\ Composed2 = Pose3(0, 4, -1)
    /\ (RunCall /\ SolverInvoked /\ poses = ComposedPoses)
          => /\ Len(residual_blocks) = 3
             /\ \A n \in DOMAIN residual_blocks :
                   BlockResidual(residual_blocks[n]) = ZeroResidual
             /\ poses[0] = poses_at_call[0]

C9_Witness ==
    /\ RunCall
    /\ pc = "done"
    /\ poses = ComposedPoses
    /\ poses # poses_at_call
    /\ use_analytic_cost

\* C10: both functors write the same residual for the same inputs, and in
\* either mode Optimize registers the block of a constraint on the same six
\* parameters in the same order with HuberLoss(1.0).
C10_SameProblemInBothModes ==
    /\ Evaluated
          => /\ residuals = AnalyticResidual(observed, sqrt_information, parameters)
             /\ residuals = AutoDiffResidual(observed, sqrt_information, parameters)
    /\ \A n \in DOMAIN residual_blocks :
          LET b == residual_blocks[n]
              s == constraints[n].source
              t == constraints[n].target
          IN  /\ b.parameter_blocks =
                    << <<s, "x">>, <<s, "y">>, <<s, "theta">>,
                       <<t, "x">>, <<t, "y">>, <<t, "theta">> >>
              /\ b.loss_function = [loss |-> "HuberLoss", a |-> 1]
              /\ b.observed = constraints[n].relative_pose
              /\ b.sqrt_information = Identity
              /\ b.cost_function =
                    (IF use_analytic_cost THEN "SpaCostFunctorAnalytic"
                                          ELSE "AutoDiffCostFunction<SpaCostFunctor>")

C10_Witness ==
    /\ epc = "analytic"
    /\ sqrt_information # Identity
    /\ \E i \in Rows : residuals[i].len # 0
    /\ \E i \in Rows : residuals[i].ang # 0
    /\ residuals = AutoDiffResidual(observed, sqrt_information, parameters)

=============================================================================
